---- MODULE Spec2Model ----
(***************************************************************************)
(* Model of the BIG Policy Pulse bot (juanfe14-dev/big-policy-bot).         *)
(*                                                                         *)
(* The repository holds several whole-file variants of the same bot.  The  *)
(* variable `variant` selects the one that runs; it is fixed at Init:      *)
(*   "index"  src/index.js              v4.2, snapshots, ungated resets     *)
(*   "p001b"  src/unnamed/part_001      second program of that file        *)
(*            (lines 860-1874), snapshots, Monday and day-1 gates           *)
(*   "p002"   src/unnamed/part_002      v5.0, Monday gate, ungated month    *)
(*   "p003"   src/unnamed/part_003      v4.7 slim, no snapshots, both gates *)
(*   "p000"   src/unnamed/part_000      v4.7 patch, handlers and            *)
(*            checkResets only; its aggregator functions are not in src/   *)
(* The first program of part_001 (lines 1-860, server-local time, no       *)
(* snapshots) is superseded by the second and is not modelled.             *)
(*                                                                         *)
(* Time is the Pacific civil day (a day-of-year index in 2025).  The host  *)
(* clock is UTC (src/index.js:628 "Cron runs in UTC"), so the Date built   *)
(* from the Pacific wall clock carries the Pacific civil fields.  Instants *)
(* within the first second after midnight are not distinguished.           *)
(* Per-sale category counts and the policyDetails log are not modelled.    *)
(***************************************************************************)
EXTENDS Integers, Sequences, FiniteSets, TLC

VARIABLES variant, now, salesData, disk, writing, reacting, syncpc,
          syncs, owed, last, gAgent, gBucket, clearsToday, stale,
          content, sales, board, proc, git, slots, cron

vars == <<variant, now, salesData, disk, writing, reacting, syncpc,
          syncs, owed, last, gAgent, gBucket, clearsToday, stale,
          content, sales, board, proc, git, slots, cron>>

Variants == {"index", "p001b", "p002", "p003", "p000"}

Periods == {"daily", "weekly", "monthly"}

Buckets == {"daily", "weekly", "monthly", "allTime"}

(***************************************************************************)
(* Bounds of the model.                                                    *)
(***************************************************************************)
\* number of civil days after the first one
Horizon == 3
\* addSale calls in one run
MaxSales == 2
\* distinct documents in flight to the file at once
MaxInflight == 1
\* `!sync` chat commands in one run
MaxSyncs == 1
\* failed file operations in one run
MaxFailures == 1
\* git sync pipelines started in one run
MaxPipelines == 2

\* Friday 2025-05-30 as a 0-based day of the year 2025.  The days that follow
\* are Saturday May 31, Sunday June 1 and Monday June 2.
StartDay == 120 + 29

EndDay == StartDay + Horizon

(***************************************************************************)
(* Calendar: the Date getters the code uses, for a day n of 2025.          *)
(***************************************************************************)
MonthStart == <<0, 31, 59, 90, 120, 151, 181, 212, 243, 273, 304, 334, 365>>

getFullYear(n) == 2025

\* Date.prototype.getMonth: 0..11
getMonth(n) == CHOOSE m \in 0..11 : MonthStart[m + 1] <= n /\ n < MonthStart[m + 2]

\* Date.prototype.getDate: 1..31
getDate(n) == n - MonthStart[getMonth(n) + 1] + 1

\* Date.prototype.getDay: 0 = Sunday; 2025-01-01 is a Wednesday
getDay(n) == (3 + n) % 7

\* getWeekNumber of index.js, part_001, part_002:
\* Math.ceil((pastDaysOfYear + firstDayOfYear.getDay() + 1) / 7), where
\* pastDaysOfYear = n + (time of day as a fraction in (0,1))
getWeekNumber(n) == ((n + getDay(0) + 1) \div 7) + 1

\* getWeekNumber of part_000 / weekNumber of part_003 (ISO-8601 week):
\* move to the Thursday of the week, then ceil((dayOfYear + 1) / 7)
weekNumber(n) ==
    LET thursday == n + 4 - (IF getDay(n) = 0 THEN 7 ELSE getDay(n))
    IN  (thursday + 1 + 6) \div 7

(***************************************************************************)
(* Reset tags.  A tag is a record so that tags of different formats can be *)
(* compared; k names the format.                                           *)
(***************************************************************************)
Tag(k, y, a, b) == [k |-> k, y |-> y, a |-> a, b |-> b]

\* null
NullTag == Tag("null", 0, 0, 0)

\* ''
EmptyTag == Tag("empty", 0, 0, 0)

\* JavaScript truthiness of a stored tag: null and '' are falsy
Truthy(t) == t.k \notin {"null", "empty"}

\* Date.prototype.toDateString, e.g. "Wed Oct 01 2025"
toDateString(n) == Tag("toDateString", getFullYear(n), getMonth(n), getDate(n))

\* part_003 dayTag: d.toISOString().slice(0,10), "2025-10-01" on a UTC host
dayTag(n) == Tag("YYYY-MM-DD", getFullYear(n), getMonth(n) + 1, getDate(n))

\* part_003 weekTag: `${d.getFullYear()}-W${weekNumber(d)}`
weekTag(n) == Tag("Y-Wn", getFullYear(n), weekNumber(n), 0)

\* part_003 monthTag: `${year}-${String(month+1).padStart(2,'0')}`
monthTag(n) == Tag("YYYY-MM", getFullYear(n), getMonth(n) + 1, 0)

\* a bare number stored as tag (index.js lastReset.weekly, lastReset.monthly)
NumTag(x) == Tag("number", 0, x, 0)

\* The tag checkResets computes for period p on day n.
CurrentTag(v, p, n) ==
    CASE p = "daily" ->
           IF v = "p003" THEN dayTag(n) ELSE toDateString(n)
      [] p = "weekly" ->
           (CASE v = "index" -> NumTag(getWeekNumber(n))
              [] v \in {"p001b", "p002"} ->
                   Tag("Y-Wn", getFullYear(n), getWeekNumber(n), 0)
              [] v = "p000" -> Tag("Y-Wn", getFullYear(n), weekNumber(n), 0)
              [] v = "p003" -> weekTag(n))
      [] p = "monthly" ->
           (CASE v = "index" -> NumTag(getMonth(n))
              [] v \in {"p001b", "p000"} ->
                   Tag("Y-Mm", getFullYear(n), getMonth(n), 0)
              [] v = "p002" -> Tag("YYYY-MM", getFullYear(n), getMonth(n), 0)
              [] v = "p003" -> monthTag(n))

(***************************************************************************)
(* The aggregate.  A bucket is the sequence of its records in insertion    *)
(* order (the key order of the JavaScript object: Discord ids are not      *)
(* array indices).  Amounts are whole numbers of dollars.                  *)
(***************************************************************************)
Agents == {"u1", "u2"}

EmptyBucket == << >>

Has(bucket, id) == \E i \in 1..Len(bucket) : bucket[i].id = id

IndexOf(bucket, id) == CHOOSE i \in 1..Len(bucket) : bucket[i].id = id

Rec(id, username, total, count) ==
    [id |-> id, username |-> username, total |-> total, count |-> count]

RECURSIVE SumTotal(_)
SumTotal(bucket) ==
    IF bucket = << >> THEN 0 ELSE Head(bucket).total + SumTotal(Tail(bucket))

RECURSIVE SumCount(_)
SumCount(bucket) ==
    IF bucket = << >> THEN 0 ELSE Head(bucket).count + SumCount(Tail(bucket))

SnapshotOf(p) ==
    CASE p = "daily" -> "dailySnapshot"
      [] p = "weekly" -> "weeklySnapshot"
      [] p = "monthly" -> "monthlySnapshot"

\* `let salesData = {...}` at module load, day n.  part_003 and part_000
\* start with null tags; index.js with the values of the load instant;
\* part_001 and part_002 with '' for the two composite tags.
InitialData(v, n) ==
    [daily |-> EmptyBucket, weekly |-> EmptyBucket, monthly |-> EmptyBucket,
     allTime |-> EmptyBucket,
     dailySnapshot |-> EmptyBucket, weeklySnapshot |-> EmptyBucket,
     monthlySnapshot |-> EmptyBucket,
     lastReset |->
       CASE v = "index" ->
              [daily |-> toDateString(n), weekly |-> NumTag(getWeekNumber(n)),
               monthly |-> NumTag(getMonth(n))]
         [] v \in {"p001b", "p002"} ->
              [daily |-> toDateString(n), weekly |-> EmptyTag,
               monthly |-> EmptyTag]
         [] v \in {"p003", "p000"} ->
              [daily |-> NullTag, weekly |-> NullTag, monthly |-> NullTag]]

(***************************************************************************)
(* Reset Scheduler: checkResets of each variant, as a function from the    *)
(* aggregate and the civil day to the new aggregate and the set of periods *)
(* whose transition fired (wasReset / changed is `fired # {}`).            *)
(***************************************************************************)
\* a faulty transition that does not store the new tag (C6 fails on it)
ResetPeriodKeepsTag(sd, p, tag, snapshot) ==
    LET s1 == IF snapshot THEN [sd EXCEPT ![SnapshotOf(p)] = sd[p]] ELSE sd
    IN  [s1 EXCEPT ![p] = EmptyBucket]

\* a faulty transition that takes the snapshot after it cleared the bucket
\* (C9 fails on it)
ResetPeriodSnapshotsLate(sd, p, tag, snapshot) ==
    LET s1 == [sd EXCEPT ![p] = EmptyBucket, !.lastReset[p] = tag]
    IN  IF snapshot THEN [s1 EXCEPT ![SnapshotOf(p)] = s1[p]] ELSE s1

\* a faulty transition that drops the snapshots of the other periods
\* (C24 fails on it)
ResetPeriodDropsOtherSnapshots(sd, p, tag, snapshot) ==
    LET s1 == [sd EXCEPT !.dailySnapshot = EmptyBucket,
                         !.weeklySnapshot = EmptyBucket,
                         !.monthlySnapshot = EmptyBucket]
        s2 == IF snapshot THEN [s1 EXCEPT ![SnapshotOf(p)] = sd[p]] ELSE s1
    IN  [s2 EXCEPT ![p] = EmptyBucket, !.lastReset[p] = tag]

\* one transition: snapshot (when the variant keeps one), clear, store tag
ResetPeriod(sd, p, tag, snapshot) ==
    LET s1 == IF snapshot THEN [sd EXCEPT ![SnapshotOf(p)] = sd[p]] ELSE sd
    IN  [s1 EXCEPT ![p] = EmptyBucket, !.lastReset[p] = tag]

RECURSIVE ResetAll(_, _, _, _, _)
ResetAll(sd, ps, v, n, snapshot) ==
    IF ps = {} THEN sd
    ELSE LET p == CHOOSE q \in ps : TRUE
         IN  ResetAll(ResetPeriod(sd, p, CurrentTag(v, p, n), snapshot),
                      ps \ {p}, v, n, snapshot)

\* a faulty test that fires on every call (C7 fails on it)
DueIndexIgnoresTag(sd, p, n) == TRUE

DueIndex(sd, p, n) ==
    sd.lastReset[p] # CurrentTag("index", p, n)

DueP001b(sd, p, n) ==
    CASE p = "daily" -> sd.lastReset.daily # CurrentTag("p001b", p, n)
      [] p = "weekly" ->
           /\ (~Truthy(sd.lastReset.weekly)
                 \/ sd.lastReset.weekly # CurrentTag("p001b", p, n))
           /\ getDay(n) = 1
      [] p = "monthly" ->
           /\ (~Truthy(sd.lastReset.monthly)
                 \/ sd.lastReset.monthly # CurrentTag("p001b", p, n))
           /\ getDate(n) = 1

DueP002(sd, p, n) ==
    CASE p = "daily" -> sd.lastReset.daily # CurrentTag("p002", p, n)
      [] p = "weekly" ->
           /\ (~Truthy(sd.lastReset.weekly)
                 \/ sd.lastReset.weekly # CurrentTag("p002", p, n))
           /\ getDay(n) = 1
      [] p = "monthly" ->
           \/ ~Truthy(sd.lastReset.monthly)
           \/ sd.lastReset.monthly # CurrentTag("p002", p, n)

\* a faulty daily test that waits for Monday (C8 fails on it)
DueP003DailyGated(sd, p, n) ==
    /\ sd.lastReset[p] # CurrentTag("p003", p, n)
    /\ getDay(n) = 1

DueP003(sd, p, n) ==
    CASE p = "daily" -> sd.lastReset.daily # CurrentTag("p003", p, n)
      [] p = "weekly" ->
           sd.lastReset.weekly # CurrentTag("p003", p, n) /\ getDay(n) = 1
      [] p = "monthly" ->
           sd.lastReset.monthly # CurrentTag("p003", p, n) /\ getDate(n) = 1

DueP000(sd, p, n) ==
    CASE p = "daily" -> sd.lastReset.daily # CurrentTag("p000", p, n)
      [] p = "weekly" ->
           /\ (~Truthy(sd.lastReset.weekly)
                 \/ sd.lastReset.weekly # CurrentTag("p000", p, n))
           /\ getDay(n) = 1
      [] p = "monthly" ->
           /\ (~Truthy(sd.lastReset.monthly)
                 \/ sd.lastReset.monthly # CurrentTag("p000", p, n))
           /\ getDate(n) = 1

\* whether checkResets of variant v fires the transition of period p
Due(v, sd, p, n) ==
    CASE v = "index" -> DueIndex(sd, p, n)
      [] v = "p001b" -> DueP001b(sd, p, n)
      [] v = "p002" -> DueP002(sd, p, n)
      [] v = "p003" -> DueP003(sd, p, n)
      [] v = "p000" -> DueP000(sd, p, n)

\* part_003 has no snapshot slots
KeepsSnapshots(v) == v # "p003"

checkResets(v, sd, n) ==
    LET fired == {p \in Periods : Due(v, sd, p, n)}
    IN  [data |-> ResetAll(sd, fired, v, n, KeepsSnapshots(v)),
         fired |-> fired]

(***************************************************************************)
(* Period Aggregator: addSale of each variant, for one sale.  The result   *)
(* is the new aggregate, the periods whose reset fired inside the call and *)
(* the number of saveData() calls the call started (none is awaited).      *)
(***************************************************************************)
\* `if (!bucket[id]) bucket[id] = {username, total: 0, count: 0}` followed
\* by `total += amount; count += 1`: the stored username is left as it is
FoldKeep(bucket, id, username, amount) ==
    IF Has(bucket, id)
    THEN [bucket EXCEPT ![IndexOf(bucket, id)] =
            [@ EXCEPT !.total = @ + amount, !.count = @ + 1]]
    ELSE Append(bucket, Rec(id, username, amount, 1))

\* bump of part_003: as FoldKeep, and a differing username replaces the old
bump(bucket, id, username, amount) ==
    IF Has(bucket, id)
    THEN [bucket EXCEPT ![IndexOf(bucket, id)] =
            [@ EXCEPT !.username = username,
                      !.total = @ + amount, !.count = @ + 1]]
    ELSE Append(bucket, Rec(id, username, amount, 1))

\* a faulty addSale that leaves the monthly bucket out (C2 fails on it)
addSaleIndexSkipsMonthly(v, sd, n, id, username, amount) ==
    LET r == checkResets(v, sd, n)
        d == r.data
    IN  [data |-> [d EXCEPT
                     !.daily = FoldKeep(d.daily, id, username, amount),
                     !.weekly = FoldKeep(d.weekly, id, username, amount),
                     !.allTime = FoldKeep(d.allTime, id, username, amount)],
         fired |-> r.fired,
         checked |-> TRUE,
         saves |-> 1 + (IF r.fired # {} THEN 1 ELSE 0)]

\* a faulty addSale that leaves the allTime bucket out (C29 fails on it)
addSaleIndexSkipsAllTime(v, sd, n, id, username, amount) ==
    LET r == checkResets(v, sd, n)
        d == r.data
    IN  [data |-> [d EXCEPT
                     !.daily = FoldKeep(d.daily, id, username, amount),
                     !.weekly = FoldKeep(d.weekly, id, username, amount),
                     !.monthly = FoldKeep(d.monthly, id, username, amount)],
         fired |-> r.fired,
         checked |-> TRUE,
         saves |-> 1 + (IF r.fired # {} THEN 1 ELSE 0)]

\* index.js (and part_001:1118-1163, the same text): checkResets, the three
\* period buckets, allTime, saveData()
addSaleIndex(v, sd, n, id, username, amount) ==
    LET r == checkResets(v, sd, n)
        d == r.data
    IN  [data |-> [d EXCEPT
                     !.daily = FoldKeep(d.daily, id, username, amount),
                     !.weekly = FoldKeep(d.weekly, id, username, amount),
                     !.monthly = FoldKeep(d.monthly, id, username, amount),
                     !.allTime = FoldKeep(d.allTime, id, username, amount)],
         fired |-> r.fired,
         checked |-> TRUE,
         saves |-> 1 + (IF r.fired # {} THEN 1 ELSE 0)]

\* part_002: no checkResets; four buckets; saveData()
addSaleP002(sd, n, id, username, amount) ==
    [data |-> [sd EXCEPT
                 !.daily = FoldKeep(sd.daily, id, username, amount),
                 !.weekly = FoldKeep(sd.weekly, id, username, amount),
                 !.monthly = FoldKeep(sd.monthly, id, username, amount),
                 !.allTime = FoldKeep(sd.allTime, id, username, amount)],
     fired |-> {},
     checked |-> FALSE,
     saves |-> 1]

\* a faulty addSale that counts the sale twice in the weekly bucket (C3
\* fails on it)
addSaleP003DoublesWeekly(sd, n, id, username, amount) ==
    [data |-> [sd EXCEPT
                 !.daily = bump(sd.daily, id, username, amount),
                 !.weekly = bump(bump(sd.weekly, id, username, amount),
                                 id, username, amount),
                 !.monthly = bump(sd.monthly, id, username, amount),
                 !.allTime = bump(sd.allTime, id, username, amount)],
     fired |-> {},
     checked |-> FALSE,
     saves |-> 0]

\* part_003: no checkResets; bump on the four buckets; no saveData
addSaleP003(sd, n, id, username, amount) ==
    [data |-> [sd EXCEPT
                 !.daily = bump(sd.daily, id, username, amount),
                 !.weekly = bump(sd.weekly, id, username, amount),
                 !.monthly = bump(sd.monthly, id, username, amount),
                 !.allTime = bump(sd.allTime, id, username, amount)],
     fired |-> {},
     checked |-> FALSE,
     saves |-> 0]

\* part_000 calls an addSale that is not in src/: the contract of spec 4.2
\* (boundary check first, four buckets, last-seen name, persist)
addSaleP000(sd, n, id, username, amount) ==
    LET r == checkResets("p000", sd, n)
        d == r.data
    IN  [data |-> [d EXCEPT
                     !.daily = bump(d.daily, id, username, amount),
                     !.weekly = bump(d.weekly, id, username, amount),
                     !.monthly = bump(d.monthly, id, username, amount),
                     !.allTime = bump(d.allTime, id, username, amount)],
         fired |-> r.fired,
         checked |-> TRUE,
         saves |-> 1 + (IF r.fired # {} THEN 1 ELSE 0)]

addSale(v, sd, n, id, username, amount) ==
    CASE v \in {"index", "p001b"} -> addSaleIndex(v, sd, n, id, username, amount)
      [] v = "p002" -> addSaleP002(sd, n, id, username, amount)
      [] v = "p003" -> addSaleP003(sd, n, id, username, amount)
      [] v = "p000" -> addSaleP000(sd, n, id, username, amount)

\* `for (const sale of sales) addSale(...)`: the loop of the message handler,
\* which runs to its end without an await in index.js, part_001, part_002
\* and part_003
RECURSIVE addSales(_, _, _, _, _, _)
addSales(v, sd, n, id, username, amounts) ==
    IF amounts = << >>
    THEN [data |-> sd, fired |-> {}, checked |-> FALSE, saves |-> 0]
    ELSE LET one == addSale(v, sd, n, id, username, Head(amounts))
             rest == addSales(v, one.data, n, id, username, Tail(amounts))
         IN  [data |-> rest.data,
              fired |-> one.fired \cup rest.fired,
              checked |-> one.checked,
              saves |-> one.saves + rest.saves]

(***************************************************************************)
(* Stats read.                                                             *)
(***************************************************************************)
Zero == [total |-> 0, count |-> 0]

NoStats == [b \in Buckets |-> Zero]

\* `salesData.daily[userId] || { total: 0, count: 0 }`
ReadRecord(bucket, id) ==
    IF Has(bucket, id)
    THEN [total |-> bucket[IndexOf(bucket, id)].total,
          count |-> bucket[IndexOf(bucket, id)].count]
    ELSE Zero

\* a faulty pull that stores a sale nobody made (C15 fails on it)
pullFabricates(bucket, id, username) ==
    IF Has(bucket, id) THEN bucket ELSE Append(bucket, Rec(id, username, 1, 1))

\* pull of part_003 getUserSalesStats: a missing record is stored as zeros
pull(bucket, id, username) ==
    IF Has(bucket, id) THEN bucket ELSE Append(bucket, Rec(id, username, 0, 0))

\* the !mystats case of index.js (part_001, part_002 alike): checkResets,
\* then the four reads
mystatsIndex(v, sd, n, id, username) ==
    LET r == checkResets(v, sd, n)
    IN  [data |-> r.data, fired |-> r.fired, checked |-> TRUE,
         saves |-> IF r.fired # {} THEN 1 ELSE 0,
         stats |-> [b \in Buckets |-> ReadRecord(r.data[b], id)]]

\* getUserSalesStats of part_003
getUserSalesStats(sd, n, id, username) ==
    LET d == [sd EXCEPT !.daily = pull(sd.daily, id, username),
                        !.weekly = pull(sd.weekly, id, username),
                        !.monthly = pull(sd.monthly, id, username),
                        !.allTime = pull(sd.allTime, id, username)]
    IN  [data |-> d, fired |-> {}, checked |-> FALSE, saves |-> 0,
         stats |-> [b \in Buckets |-> ReadRecord(d[b], id)]]

\* part_000 calls a getUserSalesStats that is not in src/: getAgentStats of
\* spec 4.2 (defensive initialization, stored totals untouched)
getAgentStats(sd, n, id, username) ==
    LET d == [sd EXCEPT !.daily = pull(sd.daily, id, username),
                        !.weekly = pull(sd.weekly, id, username),
                        !.monthly = pull(sd.monthly, id, username),
                        !.allTime = pull(sd.allTime, id, username)]
    IN  [data |-> d, fired |-> {}, checked |-> FALSE, saves |-> 0,
         stats |-> [b \in Buckets |-> ReadRecord(d[b], id)]]

mystats(v, sd, n, id, username) ==
    CASE v \in {"index", "p001b", "p002"} -> mystatsIndex(v, sd, n, id, username)
      [] v = "p003" -> getUserSalesStats(sd, n, id, username)
      [] v = "p000" -> getAgentStats(sd, n, id, username)

(***************************************************************************)
(* Leaderboard: which variants run checkResets before rendering a period.  *)
(***************************************************************************)
\* index.js / part_001: always (skipResetCheck false); part_002: only for
\* the monthly period; part_003: never; part_000: the renderer is not in
\* src/ and spec 4.4 makes it a pure function
LeaderboardChecks(v, p) ==
    CASE v \in {"index", "p001b"} -> TRUE
      [] v = "p002" -> p = "monthly"
      [] v = "p003" -> FALSE
      [] v = "p000" -> FALSE

\* a faulty renderer that takes the last entry out of the bucket it renders
\* (C16 fails on it)
generateAPLeaderboardShifts(v, sd, n, p) ==
    [data |-> [sd EXCEPT ![p] = SubSeq(@, 1, Len(@) - 1)],
     fired |-> {}, checked |-> FALSE, saves |-> 0]

generateAPLeaderboard(v, sd, n, p) ==
    IF LeaderboardChecks(v, p)
    THEN LET r == checkResets(v, sd, n)
         IN  [data |-> r.data, fired |-> r.fired, checked |-> TRUE,
              saves |-> IF r.fired # {} THEN 1 ELSE 0]
    ELSE [data |-> sd, fired |-> {}, checked |-> FALSE, saves |-> 0]

(***************************************************************************)
(* Persistence.                                                            *)
(***************************************************************************)
\* loadData: the parsed document replaces salesData; part_000 turns a falsy
\* composite tag into null, part_001 / part_002 into ''
loadData(v, doc) ==
    LET fix(t) == IF Truthy(t) THEN t
                  ELSE IF v = "p000" THEN NullTag
                  ELSE IF v \in {"p001b", "p002"} THEN EmptyTag
                  ELSE t
    IN  [doc EXCEPT !.lastReset.weekly = fix(@), !.lastReset.monthly = fix(@)]

(***************************************************************************)
(* Ranking.  Object.entries lists the records of a bucket in insertion     *)
(* order (the keys are Discord ids, which are not array indices), and      *)
(* Array.prototype.sort is stable on the Node versions discord.js 14 runs  *)
(* on.                                                                     *)
(***************************************************************************)
\* agents in a ranked bucket
MaxRanked == 3

RankedAgents == {<<"A", "B", "C", "D">>[i] : i \in 1..MaxRanked}

RankedRecords ==
    {Rec(a, a, total, count) :
       a \in RankedAgents, total \in {100, 300}, count \in {1, 2}}

\* the buckets of up to MaxRanked agents, in every insertion order
RankedBuckets ==
    {b \in UNION {[1..n -> RankedRecords] : n \in 1..MaxRanked} :
       \A i, j \in 1..Len(b) : i # j => b[i].id # b[j].id}

\* a faulty sort that puts a record before the records it ties with (C14
\* fails on it)
sortTiesReversed(entries, field) ==
    LET RECURSIVE go(_)
        go(es) ==
          IF es = << >> THEN << >>
          ELSE LET done == go(SubSeq(es, 1, Len(es) - 1))
                   x == es[Len(es)]
                   k == Cardinality({i \in 1..Len(done) : done[i][field] > x[field]})
               IN  SubSeq(done, 1, k) \o <<x>> \o SubSeq(done, k + 1, Len(done))
    IN  go(entries)

\* Object.entries(data).sort((a, b) => b[field] - a[field]): each record goes
\* behind the records that are not smaller
sort(entries, field) ==
    LET RECURSIVE go(_)
        go(es) ==
          IF es = << >> THEN << >>
          ELSE LET done == go(SubSeq(es, 1, Len(es) - 1))
                   x == es[Len(es)]
                   k == Cardinality({i \in 1..Len(done) : done[i][field] >= x[field]})
               IN  SubSeq(done, 1, k) \o <<x>> \o SubSeq(done, k + 1, Len(done))
    IN  go(entries)

NotRanked(data) == [data |-> data, by |-> "-", sorted |-> << >>]

(***************************************************************************)
(* The sale parser.  A message text is a sequence of tokens: a number (a   *)
(* maximal run of digits and commas), a word (a maximal run of letters),   *)
(* "$", ":", " " or "\n".  The texts considered keep a separator between   *)
(* a number and a word, and hold no emoji, mention, "w/", "with" or "#":   *)
(* the replaces of parseMultipleSales for those leave such a text as it    *)
(* is.                                                                     *)
(***************************************************************************)
Numbers == {"624", "4,000"}

\* parseFloat(s.replace(/,/g, ''))
parseFloat(s) == IF s = "624" THEN 624 ELSE 4000

\* the runs of word characters of a number token
Pieces(s) == IF s = "624" THEN <<"624">> ELSE <<"4", "000">>

Labels == {"His", "Hers", "HIS", "HERS"}

Products == {"NLG", "IUL", "Americo", "FORESTERS"}

Words == Labels \cup Products

toLowerCase(w) ==
    CASE w \in {"His", "HIS"} -> "his"
      [] w \in {"Hers", "HERS"} -> "hers"
      [] w = "NLG" -> "nlg"
      [] w = "IUL" -> "iul"
      [] w = "Americo" -> "americo"
      [] w = "FORESTERS" -> "foresters"
      [] OTHER -> w

\* word.charAt(0).toUpperCase() + word.slice(1).toLowerCase()
TitleCase(w) ==
    CASE toLowerCase(w) = "his" -> "His"
      [] toLowerCase(w) = "hers" -> "Hers"
      [] toLowerCase(w) = "nlg" -> "Nlg"
      [] toLowerCase(w) = "iul" -> "Iul"
      [] toLowerCase(w) = "americo" -> "Americo"
      [] toLowerCase(w) = "foresters" -> "Foresters"
      [] OTHER -> w

\* the words of one character
OneChar(w) == w \in {"4"}

IsSpace(c) == c \in {" ", "\n"}

\* \w against a token: the token is made of word characters at both ends
IsWordy(c) == c \in Words \cup Numbers

\* \s* from position i: the first position that holds no white space
RECURSIVE SkipSpaces(_, _)
SkipSpaces(t, i) ==
    IF i <= Len(t) /\ IsSpace(t[i]) THEN SkipSpaces(t, i + 1) ELSE i

\* \b before position i and after position i, at a word or number token
BoundaryBefore(t, i) == i = 1 \/ ~IsWordy(t[i - 1])

BoundaryAfter(t, i) == i = Len(t) \/ ~IsWordy(t[i + 1])

NoMatch == [ok |-> FALSE, to |-> 0, num |-> "-"]

\* /\$\s*([\d,]+(?:\.\d{2})?)/ and /\$\s*([\d,.]+)/ at position i
LeadingAt(t, i) ==
    LET j == SkipSpaces(t, i + 1)
    IN  IF t[i] = "$" /\ j <= Len(t) /\ t[j] \in Numbers
        THEN [ok |-> TRUE, to |-> j, num |-> t[j]]
        ELSE NoMatch

\* /([\d,]+(?:\.\d{2})?)\s*\$/ at position i
TrailingAt(t, i) ==
    LET j == SkipSpaces(t, i + 1)
    IN  IF t[i] \in Numbers /\ j <= Len(t) /\ t[j] = "$"
        THEN [ok |-> TRUE, to |-> j, num |-> t[i]]
        ELSE NoMatch

\* /\b(?:his|hers)\s*:\s*\$?([\d,.]+)\b/i at position i
HisHersAt(t, i) ==
    LET j == SkipSpaces(t, i + 1)
        k == SkipSpaces(t, j + 1)
        m == IF k <= Len(t) /\ t[k] = "$" THEN k + 1 ELSE k
    IN  IF /\ t[i] \in Words
           /\ toLowerCase(t[i]) \in {"his", "hers"}
           /\ BoundaryBefore(t, i)
           /\ j <= Len(t) /\ t[j] = ":"
           /\ m <= Len(t) /\ t[m] \in Numbers
           /\ BoundaryAfter(t, m)
        THEN [ok |-> TRUE, to |-> m, num |-> t[m]]
        ELSE NoMatch

\* one attempt of a pattern at position i
MatchAt(pattern, t, i) ==
    CASE pattern = "leading" -> LeadingAt(t, i)
      [] pattern = "either" ->
           IF LeadingAt(t, i).ok THEN LeadingAt(t, i) ELSE TrailingAt(t, i)
      [] pattern = "hisHers" -> HisHersAt(t, i)
      [] pattern = "any" -> LeadingAt(t, i)
      [] pattern = "trailing" ->
           IF BoundaryBefore(t, i) THEN TrailingAt(t, i) ELSE NoMatch

\* the matches of a global pattern from position i on, left to right
RECURSIVE matchAll(_, _, _)
matchAll(pattern, t, i) ==
    IF i > Len(t) THEN << >>
    ELSE LET m == MatchAt(pattern, t, i)
         IN  IF m.ok
             THEN <<[index |-> i, to |-> m.to, num |-> m.num]>>
                    \o matchAll(pattern, t, m.to + 1)
             ELSE matchAll(pattern, t, i + 1)

\* String.prototype.trim
RECURSIVE trim(_)
trim(t) ==
    IF t = << >> THEN t
    ELSE IF IsSpace(Head(t)) THEN trim(Tail(t))
    ELSE IF IsSpace(t[Len(t)]) THEN trim(SubSeq(t, 1, Len(t) - 1))
    ELSE t

\* replace(/\n/g, ' ')
RECURSIVE joinLines(_)
joinLines(t) ==
    IF t = << >> THEN t
    ELSE <<IF Head(t) = "\n" THEN " " ELSE Head(t)>> \o joinLines(Tail(t))

\* replace(/\s+/g, ' ')
RECURSIVE collapse(_)
collapse(t) ==
    IF t = << >> THEN t
    ELSE IF IsSpace(Head(t))
         THEN <<" ">> \o collapse(SubSeq(t, SkipSpaces(t, 1), Len(t)))
         ELSE <<Head(t)>> \o collapse(Tail(t))

\* replace(/^(His|Hers|...):/gi, '').trim()
RoleLabels ==
    {"his", "hers", "child", "spouse", "wife", "husband", "son", "daughter",
     "kid", "parent", "mother", "father"}

stripLabel(t) ==
    IF Len(t) >= 2 /\ toLowerCase(t[1]) \in RoleLabels /\ t[2] = ":"
    THEN trim(SubSeq(t, 3, Len(t)))
    ELSE t

\* replace(/[^\w\s-]/g, ' ').replace(/\s+/g, ' ').trim(), as the list of the
\* words left
RECURSIVE wordsOf(_)
wordsOf(t) ==
    IF t = << >> THEN << >>
    ELSE (CASE Head(t) \in Words -> <<Head(t)>>
            [] Head(t) \in Numbers -> Pieces(Head(t))
            [] OTHER -> << >>) \o wordsOf(Tail(t))

policyPatterns ==
    << <<"nlg">>, <<"tle">>, <<"iul">>, <<"iule">>, <<"ul">>, <<"wl">>,
       <<"term">>, <<"americo">>, <<"moo">>, <<"ladder">>, <<"term", "life">>,
       <<"universal", "life">>, <<"whole", "life">>, <<"final", "expense">>,
       <<"index", "universal", "life">>, <<"variable", "universal", "life">> >>

\* new RegExp(`\\b${pattern}\\b`, 'i') matches the words from position i
OccursAt(ws, pat, i) ==
    /\ i + Len(pat) - 1 <= Len(ws)
    /\ \A k \in 1..Len(pat) : toLowerCase(ws[i + k - 1]) = pat[k]

Occurs(ws, pat) == \E i \in 1..Len(ws) : OccursAt(ws, pat, i)

\* policyText.match(/(\w+\s+)?\bpattern\b(\s+\w+)?/i)[0]: the leftmost
\* occurrence with the word before it and the word after it
extract(ws, pat) ==
    LET i == CHOOSE i \in 1..Len(ws) :
                 /\ OccursAt(ws, pat, i)
                 /\ \A j \in 1..(i - 1) : ~OccursAt(ws, pat, j)
        from == IF i > 1 THEN i - 1 ELSE i
        to == IF i + Len(pat) <= Len(ws) THEN i + Len(pat) ELSE i + Len(pat) - 1
    IN  SubSeq(ws, from, to)

\* the loop over policyPatterns, from pattern k on
RECURSIVE foundPolicy(_, _)
foundPolicy(ws, k) ==
    IF k > Len(policyPatterns) THEN << >>
    ELSE IF Occurs(ws, policyPatterns[k]) THEN extract(ws, policyPatterns[k])
    ELSE foundPolicy(ws, k + 1)

\* the category of a sale from the text after its amount
policyType(text) ==
    LET ws == wordsOf(stripLabel(trim(text)))
        found == foundPolicy(ws, 1)
        chosen == IF found # << >> THEN found ELSE ws
        cut == IF Len(chosen) > 3 THEN SubSeq(chosen, 1, 3) ELSE chosen
        final == IF cut = << >> \/ (Len(cut) = 1 /\ OneChar(cut[1]))
                 THEN <<"General", "Policy">>
                 ELSE cut
    IN  [k \in 1..Len(final) |-> TitleCase(final[k])]

\* matches.forEach of index.js and part_002
salesOf(full, matches) ==
    [k \in 1..Len(matches) |->
       [amount |-> parseFloat(matches[k].num),
        policyType |->
          policyType(SubSeq(full, matches[k].to + 1,
                            IF k < Len(matches) THEN matches[k + 1].index - 1
                            ELSE Len(full)))]]

\* src/index.js: amounts with a leading "$" only
parseIndex(message) ==
    LET full == joinLines(message)
    IN  salesOf(full, matchAll("leading", full, 1))

\* part_002 (and part_001, the same text): "$" before or after the amount
parseP002(message) ==
    LET full == joinLines(message)
    IN  salesOf(full, matchAll("either", full, 1))

\* the amounts > 0 of the matches
pushAll(matches) ==
    LET kept == SelectSeq(matches, LAMBDA m : parseFloat(m.num) > 0)
    IN  [k \in 1..Len(kept) |-> [amount |-> parseFloat(kept[k].num), type |-> "AP"]]

\* the de-duplication by amount.toFixed(2)
RECURSIVE uniq(_, _)
uniq(out, seen) ==
    IF out = << >> THEN << >>
    ELSE IF Head(out).amount \in seen THEN uniq(Tail(out), seen)
    ELSE <<Head(out)>> \o uniq(Tail(out), seen \cup {Head(out).amount})

\* part_003: three patterns one after the other, then the de-duplication
parseP003(text) ==
    LET t == trim(collapse(text))
        out == pushAll(matchAll("hisHers", t, 1))
                 \o pushAll(matchAll("any", t, 1))
                 \o pushAll(matchAll("trailing", t, 1))
    IN  IF text = << >> THEN << >>
        ELSE IF Len(out) > 1 THEN uniq(out, {}) ELSE out

parseMultipleSales(v, text) ==
    CASE v = "index" -> parseIndex(text)
      [] v \in {"p001b", "p002"} -> parseP002(text)
      [] v = "p003" -> parseP003(text)

\* sale chunks per message text
MaxChunks == 2

ProductTexts ==
    {<<"Americo", "IUL">>, <<"NLG", "IUL">>, <<"IUL">>, <<"FORESTERS">>}

\* one sale as the agents write it (part_003:83-85): an amount with the "$"
\* before or after it, a product text, and a role label either before the
\* amount ("His: $4,000 NLG IUL") or after it ("378$ HIS FORESTERS")
Chunks ==
    {c \in [label : {"-"} \cup Labels, symbol : {"leading", "trailing"},
            num : Numbers, product : ProductTexts] :
       c.label \in {"HIS", "HERS"} => c.symbol = "trailing"}

RECURSIVE spaced(_)
spaced(ws) ==
    IF Len(ws) <= 1 THEN ws ELSE <<Head(ws), " ">> \o spaced(Tail(ws))

Render(c) ==
    LET amount == IF c.symbol = "leading" THEN <<"$", c.num>> ELSE <<c.num, "$">>
    IN  CASE c.label \in {"His", "Hers"} ->
               <<c.label, ":", " ">> \o amount \o <<" ">> \o spaced(c.product)
          [] c.label \in {"HIS", "HERS"} ->
               amount \o <<" ", c.label, " ">> \o spaced(c.product)
          [] OTHER -> amount \o <<" ">> \o spaced(c.product)

\* the message texts of up to n chunks, on one line or on several
RECURSIVE Texts(_)
Texts(n) ==
    IF n = 1 THEN {Render(c) : c \in Chunks}
    ELSE Texts(n - 1) \cup
         {x \o <<sep>> \o Render(c) :
            x \in Texts(n - 1), sep \in {" ", "\n"}, c \in Chunks}

Contents == Texts(MaxChunks)

NotParsed == [done |-> FALSE, out |-> << >>]

(***************************************************************************)
(* The running bot.                                                        *)
(*   salesData  the in-memory aggregate                                    *)
(*   disk       the document in DATA_FILE                                  *)
(*   writing    documents handed to fs.writeFile and not yet on disk (a    *)
(*              set: writes of equal documents have the same effect).      *)
(*              saveData awaits fs.mkdir of the existing data directory    *)
(*              before it serialises salesData; that await resolves before *)
(*              the next event is handled, so the document written is the  *)
(*              aggregate at the end of the step that called saveData.     *)
(*   reacting   sale handlers that await message.react                     *)
(*   syncpc     position of the handler of a `!sync` chat command          *)
(*   syncs      `!sync` commands accepted so far                           *)
(*   owed       midnight has passed and the 30-minute cron has not yet run  *)
(*   last       what the last handler step was and did                     *)
(*   content    the text of the message handed to the parser               *)
(*   sales      what parseMultipleSales returned for it                    *)
(*   board      the bucket handed to a leaderboard and its ranked entries  *)
(*   proc       the process: up or terminated, whether a write is in       *)
(*              flight whose rejection no handler catches, the failed      *)
(*              file operations so far and whether one went unlogged       *)
(*   git        the git sync pipelines: how many were started and, for     *)
(*              each one that runs, what started it and the shell command  *)
(*              it executes next                                           *)
(*   slots      how many writes of the data file a run lets be in flight   *)
(*              at once (fixed at Init)                                    *)
(*   cron       the schedules registered in the ready handler, the hour of *)
(*              the day they have reached and the latest automatic post    *)
(* gAgent, gBucket, clearsToday and stale are history variables.           *)
(***************************************************************************)
\* sale messages: author id, author username, the amounts the parser found
Messages ==
    {[id |-> "u1", username |-> "ann", amounts |-> <<1>>],
     [id |-> "u1", username |-> "anna", amounts |-> <<2, 1>>],
     [id |-> "u2", username |-> "bob", amounts |-> <<2>>]}

\* the authors of !mystats commands
Readers == {[id |-> "u1", username |-> "ann"]}

RECURSIVE SeqSum(_)
SeqSum(q) == IF q = << >> THEN 0 ELSE Head(q) + SeqSum(Tail(q))

RECURSIVE Pending(_)
Pending(hs) == IF hs = << >> THEN 0 ELSE Len(Head(hs).rest) + Pending(Tail(hs))

Remove(q, i) == [j \in 1..(Len(q) - 1) |-> IF j < i THEN q[j] ELSE q[j + 1]]

Inflight == Cardinality(writing)

\* what a step did: op is "sale", "mystats", "load", "sync" (with who the
\* sender is: "admin" or "member"), "start" (a restart on the same day) or
\* "-" (any other step); sold the number of sales folded; fired, checked and saves come
\* from the step's result; again says that the step before ran checkResets
\* too; healed are the periods whose bucket held sales of an earlier period
\* and was cleared by the step
Step(op, who, amounts, r, stats) ==
    [op |-> IF op \in {"sale", "mystats", "load"} THEN op ELSE "-",
     who |-> IF op = "mystats" THEN who ELSE "-",
     sold |-> Len(amounts),
     fired |-> r.fired, checked |-> r.checked, saves |-> r.saves,
     again |-> r.checked /\ last.checked,
     healed |-> {p \in r.fired : stale[p]},
     stats |-> stats]

Quiet == [data |-> salesData, fired |-> {}, checked |-> FALSE, saves |-> 0]

\* the history variables after a step with result r that folded `amounts`
\* for agent `who`
Ghosts(r, who, amounts) ==
    /\ gAgent' = [a \in Agents |->
         [n |-> gAgent[a].n + (IF a = who THEN Len(amounts) ELSE 0),
          sum |-> gAgent[a].sum + (IF a = who THEN SeqSum(amounts) ELSE 0),
          dirty |-> gAgent[a].dirty \/ (r.fired # {} /\ gAgent[a].n >= 1)]]
    /\ gBucket' = [b \in Buckets |->
         LET base == IF b \in r.fired THEN [n |-> 0, sum |-> 0] ELSE gBucket[b]
         IN  [n |-> base.n + Len(amounts), sum |-> base.sum + SeqSum(amounts)]]
    /\ clearsToday' = [p \in Periods |->
         IF p \in r.fired /\ clearsToday[p] < 2
         THEN clearsToday[p] + 1 ELSE clearsToday[p]]
    /\ stale' = [p \in Periods |-> IF p \in r.fired THEN FALSE ELSE stale[p]]

Running == [up |-> TRUE, uncaught |-> FALSE, failed |-> 0, silent |-> FALSE]

\* no git sync pipeline was started
NoGit == [started |-> 0, running |-> << >>]

(***************************************************************************)
(* Scheduled posts.  The schedules are registered once, in the ready       *)
(* handler, as UTC hours computed from Pacific hours.                      *)
(***************************************************************************)
\* the timezone of the host the process runs on
Hosts == {"UTC", "America/Los_Angeles"}

\* daylight-saving time of 2025 in America/Los_Angeles: from March 9 up to
\* November 2, as 0-based days of the year
DstBegins == 59 + 8

DstEnds == 304 + 1

\* the hours Pacific time is behind UTC on day n
PacificOffset(n) == IF DstBegins <= n /\ n < DstEnds THEN 7 ELSE 8

\* Date.prototype.getTimezoneOffset on the host, in hours
getTimezoneOffset(host, n) == IF host = "UTC" THEN 0 ELSE PacificOffset(n)

\* isDST of index.js / part_001: the host's offset of today differs from the
\* larger of its January 1 and July 1 offsets
isDST(host, n) ==
    LET jan == getTimezoneOffset(host, MonthStart[1])
        jul == getTimezoneOffset(host, MonthStart[7])
    IN  (IF jan >= jul THEN jan ELSE jul) # getTimezoneOffset(host, n)

\* getPacificToUTC, called on day n.  index.js / part_001 add 7 or 8 by
\* isDST(); part_002 adds the difference of the UTC and the Pacific wall
\* clock of the moment
getPacificToUTC(v, host, n, pacificHour) ==
    IF v = "p002"
    THEN (pacificHour + PacificOffset(n)) % 24
    ELSE (pacificHour + (IF isDST(host, n) THEN 7 ELSE 8)) % 24

\* the Pacific hour at which a schedule registered for UTC hour u fires on
\* Pacific day n, and the UTC day of that moment
PacificHour(u, n) == (u + 24 - PacificOffset(n)) % 24

UtcDay(u, n) == IF u >= PacificOffset(n) THEN n ELSE n + 1

\* threeHourlyPacific
ThreeHourlyPacific == {9, 12, 15, 18, 21}

\* the Pacific hour the final reports are meant for: 11:55 PM in index.js,
\* 10:55 PM in part_001 and part_002
FinalHour(v) == IF v = "index" THEN 23 ELSE 22

\* the variants that register posting schedules
Posts(v) == v \in {"index", "p001b", "p002"}

\* the quiet hours the startup log announces: 12 AM to 8 AM Pacific
QuietHours == 0..7

\* no automatic post yet
NoPost == [kind |-> "-", hour |-> 0, cleared |-> FALSE, data |-> << >>]

\* the scheduler of a process on a host in Pacific time: host is the host's
\* timezone, clock the Pacific hour of the latest schedule that fired today,
\* post the latest automatic post (its kind, the Pacific hour it went out
\* at, the bucket it rendered and whether that bucket had been cleared
\* since the reported period began)
NoCron == [host |-> "America/Los_Angeles", clock |-> 0, post |-> NoPost]

\* the saveData calls whose rejection nothing catches: saveData of part_003
\* has no try/catch, and its sale handler awaits it outside of one
\* (part_003:182); checkResets calls it with `.catch(()=>{})` and the sync
\* command inside a try block.  saveData of the other variants catches and
\* logs the error itself.
Uncaught(v, op) == v = "p003" /\ op = "save"

\* a step of the event loop that ran to its next await with result r
Commit(op, who, amounts, r, stats) ==
    /\ proc.up
    /\ proc' = [proc EXCEPT !.uncaught = @ \/ (r.saves > 0 /\ Uncaught(variant, op))]
    /\ salesData' = r.data
    /\ writing' = IF r.saves > 0 THEN writing \cup {r.data} ELSE writing
    /\ Cardinality(writing') <= slots
    /\ last' = Step(op, who, amounts, r, stats)
    /\ Ghosts(r, who, amounts)

\* the aggregate once the process is up on day n of a fresh deployment:
\* start() finds no file and saves the initial aggregate; part_002 then runs
\* checkResets in its ready handler, before any message is delivered
Boot(v, n) ==
    IF v = "p002"
    THEN checkResets(v, InitialData(v, n), n).data
    ELSE InitialData(v, n)

Init ==
    /\ variant \in Variants
    /\ now = StartDay
    /\ salesData = Boot(variant, StartDay)
    /\ disk = Boot(variant, StartDay)
    /\ writing = {}
    /\ syncs = 0
    /\ owed = FALSE
    /\ reacting = << >>
    /\ syncpc = "idle"
    /\ last = [op |-> "-", who |-> "-", sold |-> 0, fired |-> {},
               checked |-> FALSE, saves |-> 0, again |-> FALSE, healed |-> {},
               stats |-> NoStats]
    /\ gAgent = [a \in Agents |-> [n |-> 0, sum |-> 0, dirty |-> FALSE]]
    /\ gBucket = [b \in Buckets |-> [n |-> 0, sum |-> 0]]
    /\ clearsToday = [p \in Periods |-> 0]
    /\ stale = [p \in Periods |-> FALSE]
    /\ content = << >>
    /\ sales = NotParsed
    /\ board = NotRanked(EmptyBucket)
    /\ proc = Running
    /\ git = NoGit
    /\ slots = MaxInflight
    /\ cron = NoCron

\* part_003 and part_000 run checkResets from an unconditional
\* `*/30 * * * *` cron: a running process cannot pass two midnights without
\* a tick.  The other variants call checkResets from handlers and from crons
\* that need a configured channel.
HasCron(v) == v \in {"p003", "p000"}

NextDayStale ==
    [p \in Periods |->
       \/ stale[p]
       \/ /\ gBucket[p].n > 0
          /\ CurrentTag(variant, p, now + 1) # CurrentTag(variant, p, now)]

\* Pacific midnight passes while the process runs.  File I/O, reactions and
\* replies take milliseconds: none is in flight across midnight.
Advance ==
    /\ proc.up
    /\ now < EndDay
    /\ Inflight = 0
    /\ reacting = << >>
    /\ syncpc = "idle"
    /\ ~owed
    /\ now' = now + 1
    /\ owed' = HasCron(variant)
    /\ last' = Step("advance", "-", << >>, Quiet, NoStats)
    /\ clearsToday' = [p \in Periods |-> 0]
    /\ stale' = NextDayStale
    /\ cron' = [cron EXCEPT !.clock = 0]
    /\ UNCHANGED <<git, slots, proc, content, sales, board, variant, salesData, disk, writing, reacting, syncpc, syncs,
                   gAgent, gBucket>>

\* The process is stopped with everything persisted and started on the next
\* day: start() awaits loadData(); part_002 then runs checkResets in its
\* ready handler.
Downtime ==
    /\ proc.up
    /\ now < EndDay
    /\ Inflight = 0
    /\ reacting = << >>
    /\ syncpc = "idle"
    /\ disk = salesData
    /\ now' = now + 1
    /\ owed' = FALSE
    /\ LET loaded == loadData(variant, disk)
           c == checkResets(variant, loaded, now + 1)
           r == IF variant = "p002"
                THEN [data |-> c.data, fired |-> c.fired, checked |-> TRUE,
                      saves |-> IF c.fired # {} THEN 1 ELSE 0]
                ELSE [data |-> loaded, fired |-> {}, checked |-> FALSE,
                      saves |-> 0]
       IN  /\ salesData' = r.data
           /\ writing' = IF r.saves > 0 THEN {r.data} ELSE {}
           /\ last' = [Step("start", "-", << >>, r, NoStats)
                        EXCEPT !.healed = {p \in r.fired : NextDayStale[p]}]
           /\ clearsToday' = [p \in Periods |->
                                IF p \in r.fired THEN 1 ELSE 0]
           /\ stale' = [p \in Periods |->
                          IF p \in r.fired THEN FALSE ELSE NextDayStale[p]]
           /\ gAgent' = [a \in Agents |->
                [gAgent[a] EXCEPT !.dirty = @ \/ (r.fired # {} /\ gAgent[a].n >= 1)]]
           /\ gBucket' = [b \in Buckets |->
                IF b \in r.fired THEN [n |-> 0, sum |-> 0] ELSE gBucket[b]]
    /\ cron' = [cron EXCEPT !.clock = 0]
    /\ UNCHANGED <<git, slots, proc, content, sales, board, variant, disk, reacting, syncpc, syncs>>

\* checkResets on its own: the `*/30 * * * *` cron of part_003 / part_000,
\* the 3-hour cron of part_002
CronTick ==
    /\ variant \in {"p002", "p003", "p000"}
    /\ LET c == checkResets(variant, salesData, now)
       IN  Commit("checkResets", "-", << >>,
                  [data |-> c.data, fired |-> c.fired, checked |-> TRUE,
                   saves |-> IF c.fired # {} THEN 1 ELSE 0], NoStats)
    /\ owed' = FALSE
    /\ UNCHANGED <<git, slots, cron, content, sales, board, variant, now, disk, reacting, syncpc, syncs>>

\* messageCreate with a sale message, up to its first await
MsgSale(m) ==
    /\ gBucket.allTime.n + Pending(reacting) + Len(m.amounts) <= MaxSales
    /\ IF variant = "p000"
       THEN /\ Commit("sale", m.id, <<Head(m.amounts)>>,
                      addSale(variant, salesData, now, m.id, m.username,
                              Head(m.amounts)), NoStats)
            /\ reacting' = Append(reacting,
                 [id |-> m.id, username |-> m.username, rest |-> Tail(m.amounts)])
       ELSE /\ Commit("sale", m.id, m.amounts,
                      addSales(variant, salesData, now, m.id, m.username,
                               m.amounts), NoStats)
            /\ reacting' = IF variant = "p003"
                           THEN Append(reacting,
                                  [id |-> "-", username |-> "-",
                                   rest |-> << >>])
                           ELSE reacting
    /\ UNCHANGED <<git, slots, cron, content, sales, board, variant, now, disk, syncpc, syncs, owed>>

\* the reactions of handler i are through.  part_003: `await saveData()`.
\* part_000: the next entry of the loop, or after the last one saveData.
ReactDone(i) ==
    /\ i \in 1..Len(reacting)
    /\ LET h == reacting[i]
       IN  IF h.rest = << >>
           THEN /\ Commit("save", h.id, << >>,
                          [data |-> salesData, fired |-> {}, checked |-> FALSE,
                           saves |-> 1], NoStats)
                /\ reacting' = Remove(reacting, i)
           ELSE /\ Commit("sale", h.id, <<Head(h.rest)>>,
                          addSale(variant, salesData, now, h.id, h.username,
                                  Head(h.rest)), NoStats)
                /\ reacting' = [reacting EXCEPT ![i].rest = Tail(h.rest)]
    /\ UNCHANGED <<git, slots, cron, content, sales, board, variant, now, disk, syncpc, syncs, owed>>

\* a leaderboard command for period p
Leaderboard(p) ==
    /\ Commit("leaderboard", "-", << >>,
              generateAPLeaderboard(variant, salesData, now, p), NoStats)
    /\ UNCHANGED <<git, slots, cron, content, sales, board, variant, now, disk, reacting, syncpc, syncs, owed>>

\* !mystats of author a
MyStats(a) ==
    /\ LET r == mystats(variant, salesData, now, a.id, a.username)
       IN  Commit("mystats", a.id, << >>, r, r.stats)
    /\ UNCHANGED <<git, slots, cron, content, sales, board, variant, now, disk, reacting, syncpc, syncs, owed>>

\* one of the writes in flight lands
WriteDone(doc) ==
    /\ proc.up
    /\ doc \in writing
    /\ disk' = doc
    /\ writing' = writing \ {doc}
    /\ proc' = [proc EXCEPT !.uncaught = @ /\ writing' # {}]
    /\ UNCHANGED <<git, slots, cron, content, sales, board, variant, now, salesData, reacting, syncpc, syncs, owed, last,
                   gAgent, gBucket, clearsToday, stale>>

\* `!sync` arrives; part_002 and part_003 go on for administrators only,
\* part_000 for everybody.  index.js and part_001 have no such command.
SyncStart(isAdmin) ==
    /\ proc.up
    /\ variant \in {"p002", "p003", "p000"}
    /\ syncpc = "idle"
    /\ syncs < MaxSyncs
    /\ syncs' = IF isAdmin \/ variant = "p000" THEN syncs + 1 ELSE syncs
    /\ syncpc' = IF isAdmin \/ variant = "p000" THEN "reply" ELSE "idle"
    /\ last' = [Step("sync", "-", << >>, Quiet, NoStats)
                  EXCEPT !.op = "sync",
                         !.who = IF isAdmin THEN "admin" ELSE "member"]
    /\ UNCHANGED <<git, slots, cron, proc, content, sales, board, variant, now, salesData, disk, writing, reacting,
                   owed, gAgent, gBucket, clearsToday, stale>>

\* the reply is sent; part_003 / part_000: `await loadData()` reads the
\* file into salesData; part_002 goes straight to syncToGitHub, which does
\* not touch the aggregate
SyncLoad ==
    /\ proc.up
    /\ syncpc = "reply"
    /\ syncpc' = "idle"
    /\ salesData' = IF variant \in {"p003", "p000"}
                    THEN loadData(variant, disk) ELSE salesData
    /\ last' = Step("load", "-", << >>, Quiet, NoStats)
    /\ UNCHANGED <<git, slots, cron, proc, content, sales, board, variant, now, disk, writing, reacting, syncs, owed,
                   gAgent, gBucket, clearsToday, stale>>

\* the bot without the `!sync` chat command
NextCore ==
    \/ Advance
    \/ Downtime
    \/ CronTick
    \/ \E m \in Messages : MsgSale(m)
    \/ \E i \in 1..MaxSales : ReactDone(i)
    \/ \E p \in Periods : Leaderboard(p)
    \/ \E a \in Readers : MyStats(a)
    \/ \E doc \in writing : WriteDone(doc)

\* sales, resets, persistence and the `!sync` chat command
NextSync ==
    \/ Advance
    \/ CronTick
    \/ \E m \in Messages : MsgSale(m)
    \/ \E i \in 1..MaxSales : ReactDone(i)
    \/ \E doc \in writing : WriteDone(doc)
    \/ \E isAdmin \in BOOLEAN : SyncStart(isAdmin)
    \/ SyncLoad

SpecCore == Init /\ [][NextCore]_vars

SpecSync == Init /\ [][NextSync]_vars

\* saveData of every variant but part_003 logs a failed write
\* (console.error in its catch block); part_003 passes the rejection on
LogsWriteError(v) == v # "p003"

\* fs.writeFile (or fs.mkdir) of a write in flight rejects: the file keeps
\* its content.  A rejection that nothing catches ends the process (no
\* 'error' listener and no unhandledRejection handler in part_003).
WriteFail(doc) ==
    /\ proc.up
    /\ proc.failed < MaxFailures
    /\ doc \in writing
    /\ writing' = writing \ {doc}
    /\ proc' = IF proc.uncaught
               THEN [proc EXCEPT !.up = FALSE, !.uncaught = FALSE,
                                 !.failed = @ + 1]
               ELSE [proc EXCEPT !.failed = @ + 1,
                                 !.silent = @ \/ ~LogsWriteError(variant)]
    /\ UNCHANGED <<git, slots, cron, content, sales, board, variant, now, salesData, disk,
                   reacting, syncpc, syncs, owed, last, gAgent, gBucket,
                   clearsToday, stale>>

\* fs.readFile of the loadData of a `!sync` rejects (part_003, part_000):
\* the catch block of loadData logs and saves the aggregate in memory
SyncLoadFail ==
    /\ proc.up
    /\ proc.failed < MaxFailures
    /\ syncpc = "reply"
    /\ variant \in {"p003", "p000"}
    /\ syncpc' = "idle"
    /\ writing' = writing \cup {salesData}
    /\ Cardinality(writing') <= slots
    /\ proc' = [proc EXCEPT !.failed = @ + 1]
    /\ last' = Step("load", "-", << >>, Quiet, NoStats)
    /\ UNCHANGED <<git, slots, cron, content, sales, board, variant, now, salesData, disk,
                   reacting, syncs, owed, gAgent, gBucket, clearsToday, stale>>

\* sales, resets, the `!sync` chat command and failing file operations
NextFail ==
    \/ Advance
    \/ CronTick
    \/ \E m \in Messages : MsgSale(m)
    \/ \E i \in 1..MaxSales : ReactDone(i)
    \/ \E doc \in writing : WriteDone(doc)
    \/ \E isAdmin \in BOOLEAN : SyncStart(isAdmin)
    \/ SyncLoad
    \/ \E doc \in writing : WriteFail(doc)
    \/ SyncLoadFail

SpecFail == Init /\ [][NextFail]_vars

\* The process is stopped and started again on the same day.  No variant
\* has a shutdown handler: a write that is in flight when the process stops
\* is lost.  start() awaits loadData(); part_002 then runs checkResets in
\* its ready handler.
Restart ==
    /\ proc.up
    /\ reacting = << >>
    /\ syncpc = "idle"
    /\ LET loaded == loadData(variant, disk)
           c == checkResets(variant, loaded, now)
           r == IF variant = "p002"
                THEN [data |-> c.data, fired |-> c.fired, checked |-> TRUE,
                      saves |-> IF c.fired # {} THEN 1 ELSE 0]
                ELSE [data |-> loaded, fired |-> {}, checked |-> FALSE,
                      saves |-> 0]
       IN  /\ salesData' = r.data
           /\ writing' = IF r.saves > 0 THEN {r.data} ELSE {}
           /\ last' = [Step("start", "-", << >>, r, NoStats)
                        EXCEPT !.op = "start"]
           /\ Ghosts(r, "-", << >>)
    /\ proc' = [proc EXCEPT !.uncaught = FALSE]
    /\ UNCHANGED <<git, slots, cron, content, sales, board, variant, now, disk, reacting,
                   syncpc, syncs, owed>>

\* sales, cron ticks, persistence and restarts on the same day and overnight
NextRestart ==
    \/ Advance
    \/ Downtime
    \/ CronTick
    \/ \E m \in Messages : MsgSale(m)
    \/ \E i \in 1..MaxSales : ReactDone(i)
    \/ \E doc \in writing : WriteDone(doc)
    \/ Restart

SpecRestart == Init /\ [][NextRestart]_vars

(***************************************************************************)
(* The git sync: syncToGitHub runs its shell commands one after the other, *)
(* each awaited, and is called by the 3-hour cron of part_002 and by the   *)
(* `!sync` chat command.  No variant keeps a flag or a queue of running    *)
(* syncs.                                                                  *)
(***************************************************************************)
\* the shell commands of syncToGitHub that work on the repository, in order
GitSteps == <<"fetch", "pull", "add", "commit", "push">>

HasSync(v) == v \in {"p002", "p003", "p000"}

\* syncToGitHub is called: its first shell command is issued
syncToGitHub(by) ==
    /\ proc.up
    /\ git.started < MaxPipelines
    /\ git' = [started |-> git.started + 1,
               running |-> Append(git.running, [by |-> by, pc |-> 1])]
    /\ UNCHANGED <<slots, cron, proc, content, sales, board, variant, now,
                   salesData, disk, writing, reacting, syncpc, syncs, owed, last,
                   gAgent, gBucket, clearsToday, stale>>

\* the `0 */3 * * *` cron of part_002 calls syncToGitHub
CronSync ==
    /\ variant = "p002"
    /\ syncToGitHub("cron")

\* the handler of a `!sync` command that went past the permission test has
\* sent its reply (part_003 / part_000: and read the file) and calls
\* syncToGitHub
CommandSync ==
    /\ HasSync(variant)
    /\ syncToGitHub("command")

\* the shell command that pipeline i awaits has ended: the pipeline issues
\* its next one, or returns after the push
execPromise(i) ==
    /\ proc.up
    /\ i \in 1..Len(git.running)
    /\ git' = [git EXCEPT !.running =
                  IF git.running[i].pc = Len(GitSteps)
                  THEN Remove(git.running, i)
                  ELSE [git.running EXCEPT ![i].pc = @ + 1]]
    /\ UNCHANGED <<slots, cron, proc, content, sales, board, variant, now,
                   salesData, disk, writing, reacting, syncpc, syncs, owed, last,
                   gAgent, gBucket, clearsToday, stale>>

InitGit == Init /\ HasSync(variant)

NextGit ==
    \/ CronSync
    \/ CommandSync
    \/ \E i \in 1..MaxPipelines : execPromise(i)

\* the git sync pipelines alone
SpecGit == InitGit /\ [][NextGit]_vars

(***************************************************************************)
(* A process that starts on a document an earlier run persisted: agent u1  *)
(* has one sale of the same day on file, recorded under the name "ann".    *)
(* The history variables count what this process folds, so they start at   *)
(* zero.                                                                   *)
(***************************************************************************)
Returning(v) == addSale(v, Boot(v, StartDay), StartDay, "u1", "ann", 1).data

\* the process is up on day StartDay with document doc on file and in
\* memory, scheduler c and room for s writes in flight
Started(doc, c, s) ==
    /\ now = StartDay
    /\ salesData = doc
    /\ disk = doc
    /\ writing = {}
    /\ syncs = 0
    /\ owed = FALSE
    /\ reacting = << >>
    /\ syncpc = "idle"
    /\ last = [op |-> "-", who |-> "-", sold |-> 0, fired |-> {},
               checked |-> FALSE, saves |-> 0, again |-> FALSE, healed |-> {},
               stats |-> NoStats]
    /\ gAgent = [a \in Agents |-> [n |-> 0, sum |-> 0, dirty |-> FALSE]]
    /\ gBucket = [b \in Buckets |-> [n |-> 0, sum |-> 0]]
    /\ clearsToday = [p \in Periods |-> 0]
    /\ stale = [p \in Periods |-> FALSE]
    /\ content = << >>
    /\ sales = NotParsed
    /\ board = NotRanked(EmptyBucket)
    /\ proc = Running
    /\ git = NoGit
    /\ slots = s
    /\ cron = c

InitReturning ==
    /\ variant \in Variants
    /\ Started(Returning(variant), NoCron, MaxInflight)

NextReturning ==
    \/ Advance
    \/ \E m \in Messages : MsgSale(m)
    \/ \E i \in 1..MaxSales : ReactDone(i)
    \/ \E doc \in writing : WriteDone(doc)

SpecReturning == InitReturning /\ [][NextReturning]_vars

(***************************************************************************)
(* The posting schedules of index.js, part_001 and part_002.  A schedule   *)
(* fires once a day at its UTC time; within a day the schedules fire in    *)
(* the order of their Pacific hours, and messages arrive at any time.      *)
(***************************************************************************)
\* the UTC hour registered for Pacific hour h when the process started
Registered(h) == getPacificToUTC(variant, cron.host, StartDay, h)

\* the day a final report that goes out at Pacific hour ph of today reports
\* on: a report that fires after midnight is the one of the day before
ReportedDay(ph) == IF ph < 12 THEN now - 1 ELSE now

\* the first day of the period p that day d lies in (weeks begin on Monday)
PeriodStart(p, d) ==
    CASE p = "daily" -> d
      [] p = "weekly" -> d - ((getDay(d) + 6) % 7)
      [] p = "monthly" -> MonthStart[getMonth(d) + 1]

\* bucket p of sd has been cleared since the period reported at hour ph
\* began: its stored tag is not the one the process started with, and was
\* written on a later day of that period or after
Cleared(sd, p, ph) ==
    LET begin == PeriodStart(p, ReportedDay(ph))
    IN  /\ sd.lastReset[p] # Boot(variant, StartDay).lastReset[p]
        /\ sd.lastReset[p] # CurrentTag(variant, p, begin)
        /\ \E d \in (begin + 1)..now : sd.lastReset[p] = CurrentTag(variant, p, d)

\* channel.send of a rendered bucket at Pacific hour ph
Send(kind, ph, bucket, cleared) ==
    cron' = [cron EXCEPT !.clock = ph,
                         !.post = [kind |-> kind, hour |-> ph,
                                   cleared |-> cleared, data |-> bucket]]

\* the 3-hour schedule.  index.js / part_001: registered for the UTC hours
\* of 9, 12, 15, 18 and 21 Pacific, posts generateAPLeaderboard('daily').
\* part_002: `0 */3 * * *` on the host's clock; the callback posts when the
\* Pacific hour of the moment is one of the five, after checkResets()
ThreeHourly(h) ==
    /\ Posts(variant)
    /\ LET ph == IF variant = "p002" THEN h
                 ELSE PacificHour(Registered(h), now)
           hostHour == (ph + PacificOffset(now)
                           + 24 - getTimezoneOffset(cron.host, now)) % 24
           c == checkResets(variant, salesData, now)
           r == IF variant = "p002"
                THEN [data |-> c.data, fired |-> c.fired, checked |-> TRUE,
                      saves |-> IF c.fired # {} THEN 1 ELSE 0]
                ELSE generateAPLeaderboard(variant, salesData, now, "daily")
       IN  /\ variant = "p002" => hostHour % 3 = 0
           /\ cron.clock <= ph
           /\ Commit("leaderboard", "-", << >>, r, NoStats)
           /\ Send("3h", ph, r.data.daily, FALSE)
    /\ UNCHANGED <<git, slots, content, sales, board, variant, now, disk, reacting, syncpc, syncs, owed>>

\* `55 ${getPacificToUTC(23)} * * *` of index.js (22 in part_001): a copy of
\* salesData.daily is rendered, without a call of checkResets
DailyFinal ==
    /\ variant \in {"index", "p001b"}
    /\ proc.up
    /\ LET ph == PacificHour(Registered(FinalHour(variant)), now)
       IN  /\ cron.clock <= ph
           /\ Send("daily", ph, salesData.daily, Cleared(salesData, "daily", ph))
    /\ UNCHANGED <<git, slots, proc, content, sales, board, variant, now, salesData, disk, writing, reacting, syncpc, syncs, owed,
                   last, gAgent, gBucket, clearsToday, stale>>

\* `55 ${hour} * * 0`: the day of the week is the one of the UTC clock
WeeklyFinal ==
    /\ Posts(variant)
    /\ proc.up
    /\ LET u == Registered(FinalHour(variant))
           ph == PacificHour(u, now)
       IN  /\ getDay(UtcDay(u, now)) = 0
           /\ cron.clock <= ph
           /\ Send("weekly", ph, salesData.weekly, Cleared(salesData, "weekly", ph))
    /\ UNCHANGED <<git, slots, proc, content, sales, board, variant, now, salesData, disk, writing, reacting, syncpc, syncs, owed,
                   last, gAgent, gBucket, clearsToday, stale>>

\* `55 ${hour} * * *` with `tomorrow.getDate() === 1` on the Pacific date
MonthlyFinal ==
    /\ Posts(variant)
    /\ proc.up
    /\ LET ph == PacificHour(Registered(FinalHour(variant)), now)
       IN  /\ getDate(now + 1) = 1
           /\ cron.clock <= ph
           /\ Send("monthly", ph, salesData.monthly, Cleared(salesData, "monthly", ph))
    /\ UNCHANGED <<git, slots, proc, content, sales, board, variant, now, salesData, disk, writing, reacting, syncpc, syncs, owed,
                   last, gAgent, gBucket, clearsToday, stale>>

\* the process starts on a host in either timezone
InitCron ==
    /\ variant \in {v \in Variants : Posts(v)}
    /\ \E host \in Hosts :
          Started(Boot(variant, StartDay), [NoCron EXCEPT !.host = host],
                  MaxInflight)

NextCron ==
    \/ Advance
    \/ \E m \in Messages : MsgSale(m)
    \/ \E doc \in writing : WriteDone(doc)
    \/ \E h \in ThreeHourlyPacific : ThreeHourly(h)
    \/ DailyFinal
    \/ WeeklyFinal
    \/ MonthlyFinal

SpecCron == InitCron /\ [][NextCron]_vars

(***************************************************************************)
(* Two writes of the state file in flight: fs.writeFile calls run on the   *)
(* thread pool and complete in either order.                               *)
(***************************************************************************)
InitWrite ==
    /\ variant \in Variants
    /\ Started(Boot(variant, StartDay), NoCron, MaxInflight + 1)

NextWrite ==
    \/ Advance
    \/ CronTick
    \/ \E m \in Messages : MsgSale(m)
    \/ \E i \in 1..MaxSales : ReactDone(i)
    \/ \E doc \in writing : WriteDone(doc)

SpecWrite == InitWrite /\ [][NextWrite]_vars

Next ==
    \/ NextCore
    \/ \E isAdmin \in BOOLEAN : SyncStart(isAdmin)
    \/ SyncLoad
    \/ \E doc \in writing : WriteFail(doc)
    \/ SyncLoadFail
    \/ Restart
    \/ NextGit
    \/ NextCron

Spec == Init /\ [][Next]_vars

\* the variants whose parser is in src/
Parsers == {"index", "p001b", "p002", "p003"}

\* a message text arrives
InitParse ==
    /\ variant \in Parsers
    /\ content \in Contents
    /\ sales = NotParsed
    /\ board = NotRanked(EmptyBucket)
    /\ proc = Running
    /\ git = NoGit
    /\ slots = MaxInflight
    /\ cron = NoCron
    /\ now = StartDay
    /\ salesData = Boot(variant, StartDay)
    /\ disk = Boot(variant, StartDay)
    /\ writing = {}
    /\ syncs = 0
    /\ owed = FALSE
    /\ reacting = << >>
    /\ syncpc = "idle"
    /\ last = [op |-> "-", who |-> "-", sold |-> 0, fired |-> {},
               checked |-> FALSE, saves |-> 0, again |-> FALSE, healed |-> {},
               stats |-> NoStats]
    /\ gAgent = [a \in Agents |-> [n |-> 0, sum |-> 0, dirty |-> FALSE]]
    /\ gBucket = [b \in Buckets |-> [n |-> 0, sum |-> 0]]
    /\ clearsToday = [p \in Periods |-> 0]
    /\ stale = [p \in Periods |-> FALSE]

\* messageCreate hands message.content to parseMultipleSales
ParseMessage ==
    /\ ~sales.done
    /\ sales' = [done |-> TRUE, out |-> parseMultipleSales(variant, content)]
    /\ UNCHANGED <<git, slots, cron, proc, content, board, variant, now, salesData, disk, writing, reacting,
                   syncpc, syncs, owed, last, gAgent, gBucket, clearsToday,
                   stale>>

NextParse == ParseMessage

\* the parser alone, on every message text of Contents
SpecParse == InitParse /\ [][NextParse]_vars

\* the variants with a leaderboard by policy count (generatePolicyLeaderboard)
RanksPolicies(v) == v \in {"index", "p001b"}

\* a leaderboard is asked for a bucket
InitRank ==
    /\ variant \in Parsers
    /\ board \in {NotRanked(b) : b \in RankedBuckets}
    /\ proc = Running
    /\ git = NoGit
    /\ slots = MaxInflight
    /\ cron = NoCron
    /\ content = << >>
    /\ sales = NotParsed
    /\ now = StartDay
    /\ salesData = Boot(variant, StartDay)
    /\ disk = Boot(variant, StartDay)
    /\ writing = {}
    /\ syncs = 0
    /\ owed = FALSE
    /\ reacting = << >>
    /\ syncpc = "idle"
    /\ last = [op |-> "-", who |-> "-", sold |-> 0, fired |-> {},
               checked |-> FALSE, saves |-> 0, again |-> FALSE, healed |-> {},
               stats |-> NoStats]
    /\ gAgent = [a \in Agents |-> [n |-> 0, sum |-> 0, dirty |-> FALSE]]
    /\ gBucket = [b \in Buckets |-> [n |-> 0, sum |-> 0]]
    /\ clearsToday = [p \in Periods |-> 0]
    /\ stale = [p \in Periods |-> FALSE]

\* generateAPLeaderboard sorts the entries by total
RankAP ==
    /\ board.by = "-"
    /\ board' = [board EXCEPT !.by = "total", !.sorted = sort(board.data, "total")]
    /\ UNCHANGED <<git, slots, cron, proc, content, sales, variant, now, salesData, disk, writing,
                   reacting, syncpc, syncs, owed, last, gAgent, gBucket,
                   clearsToday, stale>>

\* generatePolicyLeaderboard sorts the entries by count
RankPolicies ==
    /\ RanksPolicies(variant)
    /\ board.by = "-"
    /\ board' = [board EXCEPT !.by = "count", !.sorted = sort(board.data, "count")]
    /\ UNCHANGED <<git, slots, cron, proc, content, sales, variant, now, salesData, disk, writing,
                   reacting, syncpc, syncs, owed, last, gAgent, gBucket,
                   clearsToday, stale>>

NextRank == RankAP \/ RankPolicies

\* the ranking alone, on every bucket of RankedBuckets
SpecRank == InitRank /\ [][NextRank]_vars

(***************************************************************************)
(* Properties.                                                             *)
(***************************************************************************)
\* which variants gate the weekly transition on Monday, the monthly one on
\* day 1 of the month
HasMondayGate(v) == v \in {"p001b", "p002", "p003", "p000"}

HasDayOneGate(v) == v \in {"p001b", "p003", "p000"}

\* C1: every addSale runs checkResets before it folds the sale, so right
\* after a sale was folded no reset transition is due.
C1_SaleAfterBoundaryCheck ==
    last.op = "sale" => \A p \in Periods : ~Due(variant, salesData, p, now)

C1_SaleFoldedUnchecked ==
    /\ last.op = "sale"
    /\ ~last.checked
    /\ Due(variant, salesData, "daily", now)

Seller == CHOOSE a \in Agents : gAgent'[a].n > gAgent[a].n

Plus(rec, amount, k) == [total |-> rec.total + amount, count |-> rec.count + k]

\* C3: a step that folds sales of an agent adds the same amounts and the
\* same number of counts to the agent's record in all four buckets (a bucket
\* that the step reset first starts from zero), so no other handler sees
\* the sale in only some of the buckets.
C3_AllFourBuckets ==
    [][gBucket'.allTime.n > gBucket.allTime.n =>
         \A b \in Buckets :
            ReadRecord(salesData'[b], Seller) =
               Plus(IF b \in last'.fired THEN Zero
                    ELSE ReadRecord(salesData[b], Seller),
                    gBucket'.allTime.sum - gBucket.allTime.sum,
                    gBucket'.allTime.n - gBucket.allTime.n)]_vars

C3_TwoSalesFolded ==
    /\ last.op = "sale"
    /\ last.sold = 2
    /\ \A b \in Buckets : ReadRecord(salesData[b], "u1").count = 2

\* C4: the weekly bucket is cleared only on a Monday.
C4_WeeklyOnlyOnMonday ==
    "weekly" \in last.fired => getDay(now) = 1

C4_WeeklyClearedOffMonday ==
    /\ "weekly" \in last.fired
    /\ getDay(now) = 6

\* C5: the monthly bucket is cleared only on day 1 of a month.
C5_MonthlyOnlyOnDayOne ==
    "monthly" \in last.fired => getDate(now) = 1

C5_MonthlyClearedOffDayOne ==
    /\ "monthly" \in last.fired
    /\ getDate(now) = 2

CallsCheckResets ==
    /\ \/ CronTick
       \/ \E p \in Periods : Leaderboard(p)
       \/ \E a \in Readers : MyStats(a)
    /\ last'.checked

\* C7: a call of checkResets that directly follows another one on the same
\* civil day changes no bucket, no snapshot and no stored tag (and starts
\* no save).
C7_SecondCallChangesNothing ==
    [][(last.checked /\ CallsCheckResets)
        => (salesData' = salesData /\ last'.fired = {} /\ last'.saves = 0)]_vars

C7_CalledTwiceInARow ==
    /\ last.again
    /\ last.op = "-"
    /\ clearsToday.weekly = 1
    /\ salesData.allTime # << >>

Transitioned(p) == salesData'.lastReset[p] # salesData.lastReset[p]

C10_AllTimeMonotone ==
    [][\A a \in Agents : Has(salesData.allTime, a) =>
         /\ Has(salesData'.allTime, a)
         /\ ReadRecord(salesData'.allTime, a).total
              >= ReadRecord(salesData.allTime, a).total
         /\ ReadRecord(salesData'.allTime, a).count
              >= ReadRecord(salesData.allTime, a).count]_vars

C10_SaleLostOnReload ==
    /\ last.op = "load"
    /\ gAgent.u1.n = 1
    /\ ~Has(salesData.allTime, "u1")

\* the positions of the amounts written in a text
AmountsAt(t) == {i \in 1..Len(t) : t[i] \in Numbers}

\* the values of the amounts written in a text, in input order
RECURSIVE Written(_)
Written(t) ==
    IF t = << >> THEN << >>
    ELSE (IF Head(t) \in Numbers THEN <<parseFloat(Head(t))>> ELSE << >>)
           \o Written(Tail(t))

\* every amount of the text has its "$" before it
LeadingOnly(t) == \A i \in AmountsAt(t) : i > 1 /\ t[i - 1] = "$"

\* the variant's pattern knows the amount with the "$" after it
KnowsTrailing(v) == v # "index"

\* the variant's pattern finds every amount written in the text
Recognised(v, t) == KnowsTrailing(v) \/ LeadingOnly(t)

\* the amount at position i follows a role label and its colon
Introduced(t, i) ==
    \E j \in 1..(i - 1) :
      /\ t[j] \in {"His", "Hers"}
      /\ t[j + 1] = ":"
      /\ i = SkipSpaces(t, j + 2) + (IF t[SkipSpaces(t, j + 2)] = "$" THEN 1 ELSE 0)

HasCategory(e) == "policyType" \in DOMAIN e

Amounts(out) == [k \in 1..Len(out) |-> out[k].amount]

\* C11: the parser returns one entry per amount written in the message,
\* also when two of the amounts have the same value.
C11_EachOccurrenceOnce ==
    (sales.done /\ Recognised(variant, content))
      => Len(sales.out) = Cardinality(AmountsAt(content))

C11_SameValueCountedOnce ==
    /\ sales.done
    /\ variant = "p003"
    /\ Written(content) = <<624, 624>>
    /\ LeadingOnly(content)
    /\ Amounts(sales.out) = <<624>>

\* C12: for a message of two or more amounts, each introduced by a role
\* label, the parser returns the amounts of the message in input order, one
\* entry each, and no category contains a role label.
C12_LabelledAmountsInOrder ==
    (/\ sales.done
     /\ Recognised(variant, content)
     /\ Cardinality(AmountsAt(content)) >= 2
     /\ \A i \in AmountsAt(content) : Introduced(content, i))
      => /\ Amounts(sales.out) = Written(content)
         /\ \A k \in 1..Len(sales.out) :
              HasCategory(sales.out[k]) =>
                \A j \in 1..Len(sales.out[k].policyType) :
                  toLowerCase(sales.out[k].policyType[j]) \notin RoleLabels

C12_NextLabelInCategory ==
    /\ sales.done
    /\ variant = "index"
    /\ Written(content) = <<4000, 624>>
    /\ \A i \in AmountsAt(content) : Introduced(content, i)
    /\ Len(sales.out) = 2
    /\ sales.out[1].policyType = <<"Iul", "Hers">>

\* the words of the text after its first amount
WordsAfterAmount(t) ==
    LET i == CHOOSE i \in AmountsAt(t) : \A j \in AmountsAt(t) : i <= j
    IN  {t[j] : j \in {j \in (i + 1)..Len(t) : t[j] \in Words}}

\* C13: for a message with a single amount, "$" before or after it, the
\* parser returns one entry with that amount and a category made of the
\* title-cased words of the text after the amount.
C13_SingleAmountOneEntry ==
    (sales.done /\ Cardinality(AmountsAt(content)) = 1)
      => /\ Amounts(sales.out) = Written(content)
         /\ HasCategory(sales.out[1])
         /\ sales.out[1].policyType # << >>
         /\ \A j \in 1..Len(sales.out[1].policyType) :
              \E w \in WordsAfterAmount(content) :
                sales.out[1].policyType[j] = TitleCase(w)

C13_TrailingAmountNotFound ==
    /\ sales.done
    /\ variant = "index"
    /\ content = <<"624", "$", " ", "Americo", " ", "IUL">>
    /\ sales.out = << >>

\* C14: the ranked entries are the records of the bucket in descending
\* order of the ranking field, records of equal value in the order of their
\* insertion.
C14_DescendingStable ==
    board.by # "-" =>
      /\ Len(board.sorted) = Len(board.data)
      /\ \A i \in 1..Len(board.data) :
           \E j \in 1..Len(board.sorted) : board.sorted[j] = board.data[i]
      /\ \A i, j \in 1..Len(board.sorted) : i < j =>
           /\ board.sorted[i][board.by] >= board.sorted[j][board.by]
           /\ board.sorted[i][board.by] = board.sorted[j][board.by] =>
                IndexOf(board.data, board.sorted[i].id)
                  < IndexOf(board.data, board.sorted[j].id)

C14_TieKeepsInsertionOrder ==
    /\ board.by = "total"
    /\ [k \in 1..Len(board.data) |-> <<board.data[k].id, board.data[k].total>>]
         = << <<"A", 100>>, <<"B", 300>>, <<"C", 300>> >>
    /\ [k \in 1..Len(board.sorted) |-> board.sorted[k].id] = <<"B", "C", "A">>

\* a step of the !mystats handler
ReadsStats == \E a \in Readers : MyStats(a)

\* the agent's figures a stats read may return and store
ReadsTruly ==
    /\ \A b \in Buckets : last'.stats[b] = ReadRecord(salesData'[b], last'.who)
    /\ gAgent[last'.who].n = 0 => \A b \in Buckets : last'.stats[b] = Zero
    /\ \A b \in Buckets : \A id \in Agents :
         Has(salesData'[b], id) =>
           ReadRecord(salesData'[b], id) = ReadRecord(salesData[b], id)

\* C15 as stated: a stats read leaves every record of every bucket in place
\* with its total and count, and returns and stores only zeros for an agent
\* without sales.
C15_ReadKeepsEveryRecord ==
    [][ReadsStats =>
         /\ ReadsTruly
         /\ \A b \in Buckets : \A id \in Agents :
              Has(salesData[b], id) => Has(salesData'[b], id)]_vars

\* C15 amended: the same, but for the buckets that the checkResets of the
\* read handler clears when their reset is due.
C15_ReadKeepsRecordsButReset ==
    [][ReadsStats =>
         /\ ReadsTruly
         /\ \A b \in Buckets \ last'.fired : \A id \in Agents :
              Has(salesData[b], id) => Has(salesData'[b], id)]_vars

C15_ReadAfterMidnight ==
    /\ last.op = "mystats"
    /\ "daily" \in last.fired
    /\ Has(salesData.allTime, "u1")
    /\ last.stats.daily = Zero
    /\ last.stats.allTime # Zero

\* a step of a leaderboard command
RendersLeaderboard == \E p \in Periods : Leaderboard(p)

C17_WriteThrough ==
    [][/\ salesData' # salesData => (writing = {} /\ disk = salesData)
       /\ last'.saves <= 1]_vars

C17_TwoWritesStarted ==
    /\ variant = "index"
    /\ last.op = "sale"
    /\ last.sold = 2
    /\ last.saves >= 2
    /\ writing # {}

\* a file operation fails
FileFails == (\E doc \in writing : WriteFail(doc)) \/ SyncLoadFail

\* C18: a failed write or read is logged, leaves the process running and
\* leaves the aggregate in memory as it is.
C18_FailureLoggedNotFatal ==
    [][FileFails => (proc'.up /\ ~proc'.silent /\ salesData' = salesData)]_vars

C18_WriteFailureEndsProcess ==
    /\ variant = "p003"
    /\ ~proc.up
    /\ proc.failed = 1
    /\ salesData.allTime # << >>
    /\ disk.allTime = << >>

\* C19: a `!sync` of a sender without the administrator permission starts
\* no sync and changes nothing.
C19_SyncAdminOnly ==
    [][SyncStart(FALSE) =>
         UNCHANGED <<syncpc, syncs, salesData, disk, writing, reacting>>]_vars

C19_MemberStartedSync ==
    /\ variant = "p000"
    /\ last.op = "sync"
    /\ last.who = "member"
    /\ syncpc = "reply"
    /\ syncs = 1

\* a start of the process: loadData, then (part_002) checkResets
Restarts == Restart \/ Downtime

\* C20 as stated: a restart inside a period leaves the period's bucket and
\* stored tag as they were persisted; a bucket is cleared only when its stored tag
\* differs from the tag of the day, and at most once on a day; and after a
\* call of checkResets no bucket holds sales of a period whose reset was due
\* (the daily one at once, the weekly one on Monday, the monthly one on
\* day 1, so that a monthly bucket that is stale after a call was skipped).
C20_RestartsNeitherRepeatNorSkip ==
    [][/\ \A p \in Periods :
            /\ (Restarts /\ disk.lastReset[p] = CurrentTag(variant, p, now'))
                 => /\ salesData'[p] = disk[p]
                    /\ salesData'.lastReset[p] = disk.lastReset[p]
                    /\ p \notin last'.fired
            /\ Transitioned(p)
                 => salesData.lastReset[p] # CurrentTag(variant, p, now')
            /\ clearsToday'[p] <= 1
       /\ last'.checked =>
            /\ ~stale'.daily
            /\ stale'.weekly => getDay(now') # 1
            /\ ~stale'.monthly]_vars

C20_ClearedAgainAfterRestartOnDayOne ==
    /\ variant = "p002"
    /\ last.op = "start"
    /\ "monthly" \in last.fired
    /\ getDate(now) = 1
    /\ clearsToday.monthly = 2
    /\ salesData.monthlySnapshot # << >>

\* C21: the file is read into memory at process start only: the step of a
\* `!sync` command that follows its reply leaves the aggregate in memory as
\* it is, whatever the file holds.
C21_NoReloadAfterStart ==
    [][SyncLoad => salesData' = salesData]_vars

C21_SyncReplacedMemoryByFile ==
    /\ variant \in {"p003", "p000"}
    /\ last.op = "load"
    /\ salesData = disk
    /\ gAgent.u2.n = 1
    /\ ~Has(salesData.allTime, "u2")

\* a message handler has folded some of the entries of its message and has
\* entries left to fold
MidFold == \E i \in 1..Len(reacting) : reacting[i].rest # << >>

\* C22: while a handler is between the first and the last entry of its
\* message, no cron tick and no handler of another message or command
\* reads or mutates the aggregate.
C22_NoOverlapWhileFolding ==
    [][MidFold => ~(\/ CronTick
                    \/ \E m \in Messages : MsgSale(m)
                    \/ \E p \in Periods : Leaderboard(p)
                    \/ \E a \in Readers : MyStats(a))]_vars

C22_CronTickBetweenEntries ==
    /\ variant = "p000"
    /\ MidFold
    /\ last.checked
    /\ last.sold = 0
    /\ gAgent.u1.n = 1

\* C23: at most one git sync pipeline runs at any time.
C23_OneSyncAtATime == Len(git.running) <= 1

C23_CommandSyncDuringCronSync ==
    /\ variant = "p002"
    /\ Len(git.running) = 2
    /\ git.running[1].by = "cron"
    /\ git.running[2].by = "command"
    /\ GitSteps[git.running[1].pc] = "commit"
    /\ GitSteps[git.running[2].pc] = "pull"

\* C24: a step that does not reset a period (a sale, a call of checkResets
\* that fires no transition of the period, a reset of another period, a
\* leaderboard, a stats read, a restart) leaves the period's snapshot
\* unchanged.
C24_SnapshotKeptUntilNextReset ==
    [][\A p \in Periods :
         ~Transitioned(p) =>
            salesData'[SnapshotOf(p)] = salesData[SnapshotOf(p)]]_vars

C24_WeeklySnapshotOutlivesMonthlyReset ==
    /\ salesData.weeklySnapshot # << >>
    /\ "monthly" \in last.fired
    /\ "weekly" \notin last.fired
    /\ salesData.monthlySnapshot # << >>

\* the name stored with agent id in bucket b of aggregate sd ("-" if the
\* bucket has no record of the agent)
NameIn(sd, b, id) ==
    IF Has(sd[b], id) THEN sd[b][IndexOf(sd[b], id)].username ELSE "-"

\* C25: after the sale handler has folded a message of an agent, the
\* agent's record in each of the four buckets carries the display name the
\* message came with, also when the record existed under another name.
C25_LastSeenName ==
    [][\A m \in Messages :
         MsgSale(m) =>
            \A b \in Buckets : NameIn(salesData', b, m.id) = m.username]_vars

C25_OldNameKeptAfterSaleUnderNewName ==
    /\ variant = "index"
    /\ last.op = "sale"
    /\ gAgent.u1.n = 2
    /\ gAgent.u1.sum = 3
    /\ \A b \in Buckets : NameIn(salesData, b, "u1") = "ann"

\* C26: no automatic post goes out between 12 AM and 8 AM Pacific, whatever
\* the timezone of the host and the daylight-saving status computed when
\* the schedules were registered.
C26_NoPostInQuietHours ==
    cron.post.kind # "-" => cron.post.hour \notin QuietHours

C26_DailyFinalAfterMidnight ==
    /\ variant = "index"
    /\ cron.host = "UTC"
    /\ cron.post.kind = "daily"
    /\ cron.post.hour = 0
    /\ now = StartDay + 1

\* C27: a final report (daily, weekly, monthly) renders the bucket of the
\* period it reports on: the bucket has not been cleared since that period
\* began.
C27_FinalReportBeforeReset ==
    cron.post.kind \in Periods => ~cron.post.cleared

C27_DailyFinalRendersNewDay ==
    /\ variant = "index"
    /\ cron.post.kind = "daily"
    /\ cron.post.cleared
    /\ now = StartDay + 1
    /\ gAgent.u1.n = 1
    /\ gAgent.u2.n = 1
    /\ ~Has(cron.post.data, "u1")
    /\ Has(cron.post.data, "u2")

\* every handler has run to its end and no write is in flight
Settled == writing = {} /\ reacting = << >> /\ syncpc = "idle"

\* C28: once every handler has finished and no write has failed, the
\* document on file equals the aggregate in memory: a write that carries an
\* older state does not land after one that carries a newer state.
C28_FileEqualsMemoryWhenSettled ==
    (Settled /\ proc.failed = 0) => disk = salesData

C28_OlderWriteLandedLast ==
    /\ variant = "index"
    /\ Settled
    /\ proc.failed = 0
    /\ SumCount(salesData.allTime) = 2
    /\ SumCount(disk.allTime) = 1

\* C29: every agent with a record in the daily, weekly or monthly bucket
\* has a record in allTime, and the period record's total and count do not
\* exceed the allTime record's.
C29_PeriodWithinAllTime ==
    \A p \in Periods : \A i \in 1..Len(salesData[p]) :
        LET rec == salesData[p][i]
            all == ReadRecord(salesData.allTime, rec.id)
        IN  /\ Has(salesData.allTime, rec.id)
            /\ rec.total <= all.total
            /\ rec.count <= all.count

C29_DailyBelowAllTimeAfterReset ==
    /\ last.op = "sale"
    /\ ReadRecord(salesData.daily, "u1") = [total |-> 1, count |-> 1]
    /\ ReadRecord(salesData.allTime, "u1") = [total |-> 2, count |-> 2]
    /\ gAgent.u1.dirty

\* Object.entries of a bucket: the agents a leaderboard of the bucket ranks
Entries(bucket) == {bucket[i].id : i \in 1..Len(bucket)}

\* `if(entries.length===0)`: the leaderboard reads "No sales recorded yet."
RendersNoSales(bucket) == Len(bucket) = 0

\* C30: a stats read adds no agent to a period bucket: the agents a later
\* leaderboard ranks are among those it ranked before the read, and a bucket
\* that rendered as having no sales still does.
C30_ReadAddsNoAgent ==
    [][\A a \in Readers :
         MyStats(a) =>
            \A p \in Periods :
               /\ Entries(salesData'[p]) \subseteq Entries(salesData[p])
               /\ RendersNoSales(salesData[p]) => RendersNoSales(salesData'[p])]_vars

C30_ReaderRankedWithoutSales ==
    /\ variant = "p003"
    /\ last.op = "mystats"
    /\ gBucket.allTime.n = 0
    /\ Entries(salesData.daily) = {"u1"}
    /\ ~RendersNoSales(salesData.daily)
    /\ ReadRecord(salesData.daily, "u1") = [total |-> 0, count |-> 0]

====
